---- MODULE Spec2Model ----
(***************************************************************************)
(* Credit ledger, lead contact and payment confirmation of the marketplace *)
(* backend (routes/request.js, routes/stripe.js, the User and              *)
(* CreditTransaction models, utils/stripeUtils.js).                        *)
(*                                                                         *)
(* Every request handler is an async function: it runs atomically between  *)
(* two awaits and may interleave with other handlers at each await.  A     *)
(* handler works on its own in-memory copy of the documents it loaded      *)
(* (proc[i].dcredits, proc[i].dstats) and document.save() writes the       *)
(* modified paths back: a $set for numbers, a $push for elements pushed on *)
(* an array.                                                               *)
(***************************************************************************)
EXTENDS Integers, Sequences, FiniteSets, TLC

VARIABLES
  credits,     \* User.credits as stored, per provider
  stats,       \* User.stats as stored, per provider
  autoTopUp,   \* User.preferences.autoTopUp as stored, per provider
  ledger,      \* the CreditTransaction collection, in insertion order
  requests,    \* the Request collection: status, expiry, contacts, quotes
  intents,     \* the payment intents held by the payment processor
  proc,        \* the handler invocations in flight, one per slot
  calls,       \* number of handler invocations started so far
  writes,      \* history: number of writes of credits, per provider
  applied,     \* history: times a payment intent was added to a balance
  charged,     \* history: debits persisted per (provider, lead) contact
  calc,        \* a pricing or scoring helper applied to given arguments
  sweep        \* the run of checkAndProcessAutoTopUps in progress

vars == <<credits, stats, autoTopUp, ledger, requests, intents, proc, calls,
          writes, applied, charged, calc, sweep>>

----------------------------------------------------------------------------
(* Bounds of the model. *)

MaxCalls == 3        \* handler invocations per behaviour
MaxExpired == 1      \* requests whose expiresAt passes within a behaviour

Procs == {1, 2}                 \* handler invocations that may be in flight
Providers == {"p1"}             \* service provider accounts
Leads == {"l1", "l2"}           \* requests in the database
PurchaseAmounts == {5}          \* credits a client asks for (body('credits'))
SpendAmounts == {4, 5}          \* amounts passed to spendCredits
Packages == {"starter"}         \* body('package') values used

NoLead == "none"
NoRef == <<>>
IntentIds == {<<"pi", 1>>}       \* payment intents of /create-payment-intent

(* The payment intents processAutoTopUp creates, one per invocation. *)
AutoIntentIds == {<<"auto", n>> : n \in 1..MaxCalls}
AllIntentIds == IntentIds \cup AutoIntentIds

----------------------------------------------------------------------------
(* The requests in the database.  l1 is an urgent, high budget request in  *)
(* London; l2 a low budget one elsewhere.                                   *)

LeadUrgency(l) == IF l = "l1" THEN "urgent" ELSE "low"
LeadBudget(l) == IF l = "l1" THEN 2000 ELSE 50
LeadCity(l) == IF l = "l1" THEN "London" ELSE "Smalltown"
LeadCategorySlug(l) == IF l = "l1" THEN "legal-services" ELSE "gardening"

(* promotionalLead is read by the handlers but is no path of the Request   *)
(* schema, so a loaded document never carries it.                           *)
PromotionalLead(l) == FALSE

(* String.prototype.toLowerCase on the city names used here. *)
ToLowerCase(s) ==
  CASE s = "London" -> "london"
    [] s = "Smalltown" -> "smalltown"
    [] OTHER -> s

(* String.prototype.includes; on the names used here one contains the      *)
(* other only when they are equal.                                          *)
StrIncludes(s, t) == s = t

PremiumCategories ==
  {"home-improvement", "legal-services", "financial-services",
   "wedding-services", "business-services"}

MajorCities ==
  {"London", "Manchester", "Birmingham", "Glasgow", "Liverpool", "Leeds",
   "Edinburgh", "Bristol",
   "New York", "Los Angeles", "Chicago", "Houston", "Phoenix",
   "Philadelphia", "San Antonio", "San Diego", "Dallas", "San Jose",
   "Karachi", "Lahore", "Islamabad", "Rawalpindi", "Faisalabad",
   "Multan", "Peshawar", "Quetta", "Hyderabad"}

Max(a, b) == IF a >= b THEN a ELSE b

(* calculateLeadCost of routes/request.js.  slug is the populated          *)
(* category's slug, or "undefined" when the populate did not select it.    *)
RequestLeadCost(slug, city, urgency, quotesCount) ==
  LET base0 == IF slug \in PremiumCategories THEN 8 ELSE 5
      base1 == IF \E c \in MajorCities : StrIncludes(ToLowerCase(city), c)
               THEN base0 + 2 ELSE base0
      base2 == IF urgency = "urgent" THEN base1 + 1 ELSE base1
      base3 == IF quotesCount < 2 THEN base2 - 1
               ELSE IF quotesCount >= 5 THEN base2 + 2 ELSE base2
  IN Max(base3, 3)

(* calculateLeadCost of routes/stripe.js. *)
StripeLeadCost(budget, urgency, promotional) ==
  LET c0 == 5
      c1 == IF budget > 1000 THEN c0 + 5
            ELSE IF budget > 500 THEN c0 + 3
            ELSE IF budget > 100 THEN c0 + 1 ELSE c0
      c2 == IF urgency = "urgent" THEN c1 + 3
            ELSE IF urgency = "high" THEN c1 + 1 ELSE c1
      c3 == IF promotional THEN Max(1, c2 \div 2) ELSE c2
  IN Max(1, c3)

(* requestSchema.methods.isActive *)
ActiveStatuses == {"published", "receiving_quotes", "quotes_received"}
IsActive(r) == r.status \in ActiveStatuses /\ ~r.expired

(* MongooseArray.includes on analytics.contactedProviders *)
Includes(seq, x) == \E k \in 1..Len(seq) : seq[k] = x
Count(seq, x) == Cardinality({k \in 1..Len(seq) : seq[k] = x})

----------------------------------------------------------------------------
(* Documents and handler slots. *)

ZeroStats == [leadsContacted |-> 0, creditsSpent |-> 0, totalCreditsPurchased |-> 0]

NoAutoTopUp == [enabled |-> FALSE, paymentMethodId |-> FALSE,
                threshold |-> 10, packageType |-> "starter"]

NewRequest == [status |-> "published", expired |-> FALSE,
               contactedProviders |-> <<>>, quotes |-> <<>>,
               quoteStatus |-> <<>>, selectedProvider |-> "none"]

NoIntent == [status |-> "none", customer |-> "none", credits |-> <<0>>,
             autoTopUp |-> FALSE, packageType |-> "starter",
             purpose |-> "none", everFailed |-> FALSE]

NoCalc == [fn |-> "none", in |-> <<>>, out |-> 0]

NoSweep == [phase |-> "idle", selected |-> {}, results |-> [a \in {} |-> "none"],
            processed |-> 0, successful |-> 0, failed |-> 0]

IdleProc == [pc |-> "idle", op |-> "none", user |-> "none", lead |-> NoLead,
             ref |-> NoRef, useCredits |-> FALSE, dcredits |-> 0,
             dstats |-> ZeroStats, ver |-> 0, cost |-> 0, amount |-> 0,
             affordable |-> FALSE, entry |-> 0, disclosed |-> {},
             outcome |-> "none"]

Free(i) == proc[i].pc \in {"idle", "done"}

(* A new invocation takes the first slot that is free. *)
Takes(i) == Free(i) /\ \A j \in Procs : j < i => ~Free(j)

Finish(i, how) == [proc[i] EXCEPT !.pc = "done", !.outcome = how]

(* The database and the handler slots after start-up. *)
InitStore ==
  /\ credits = [p \in Providers |-> 0]
  /\ stats = [p \in Providers |-> ZeroStats]
  /\ autoTopUp = [p \in Providers |-> NoAutoTopUp]
  /\ ledger = <<>>
  /\ requests = [l \in Leads |-> NewRequest]
  /\ intents = [k \in AllIntentIds |-> NoIntent]
  /\ proc = [i \in Procs |-> IdleProc]
  /\ calls = 0
  /\ writes = [p \in Providers |-> 0]
  /\ applied = [k \in IntentIds |-> 0]
  /\ charged = [p \in Providers |-> [l \in Leads |-> 0]]
  /\ sweep = NoSweep

Init ==
  /\ InitStore
  /\ calc = NoCalc

(* A document.save() that runs the schema validators: credits has min 0. *)
ValidCredits(c) == c >= 0

(* The check weakened to refuse only an empty balance. *)
ContactInsufficientWhenEmpty(c, leadCost) == c <= 0

(* if (provider.credits < leadCost) of the contact route *)
ContactInsufficient(c, leadCost) == c < leadCost

(* if (this.credits < amount) of spendCredits *)
SpendInsufficient(c, amount) == c < amount

(* user.credits >= leadCost of the auto contact *)
AutoContactAffordable(c, leadCost) == c >= leadCost

----------------------------------------------------------------------------
(* POST /contact/:leadId  (routes/request.js) *)

(* The handler up to its second await: User.findById. *)
ContactStart(i, p, l, useCredits) ==
  /\ Takes(i)
  /\ calls < MaxCalls
  /\ calls' = calls + 1
  /\ proc' = [proc EXCEPT ![i] =
       [IdleProc EXCEPT !.pc = "c_findRequest", !.op = "contact", !.user = p,
                        !.lead = l, !.useCredits = useCredits,
                        !.dcredits = credits[p], !.dstats = stats[p],
                        !.ver = writes[p]]]
  /\ UNCHANGED <<calc, sweep>>
  /\ UNCHANGED <<credits, stats, autoTopUp, ledger, requests, intents,
                 writes, applied, charged>>

(* The cost the contact route computes: the category is populated with     *)
(* 'name pricingInfo', so its slug is undefined.                            *)
ContactLeadCost(l) ==
  RequestLeadCost("undefined", LeadCity(l), LeadUrgency(l),
                  Len(requests[l].quotes))

ContactIsFree(l) == ContactLeadCost(l) <= 3 \/ PromotionalLead(l)

(* Request.findById, the checks, and the changes made in memory before     *)
(* request.save() is awaited.                                               *)
ContactFindRequest(i) ==
  LET me == proc[i]
      r == requests[me.lead]
      leadCost == ContactLeadCost(me.lead)
      pays == ~ContactIsFree(me.lead) /\ me.useCredits
  IN
  /\ me.pc = "c_findRequest"
  /\ proc' = [proc EXCEPT ![i] =
       IF ~IsActive(r) THEN Finish(i, "inactive")
       ELSE IF Includes(r.contactedProviders, me.user) THEN Finish(i, "duplicate")
       ELSE IF pays /\ ContactInsufficient(me.dcredits, leadCost)
         THEN [Finish(i, "insufficient") EXCEPT !.cost = leadCost]
       ELSE [me EXCEPT !.pc = "c_saveRequest", !.cost = leadCost,
                       !.amount = IF pays THEN leadCost ELSE 0,
                       !.dcredits = IF pays THEN me.dcredits - leadCost
                                    ELSE me.dcredits]]
  /\ UNCHANGED <<calc, sweep>>
  /\ UNCHANGED <<credits, stats, autoTopUp, ledger, requests, intents, calls,
                 writes, applied, charged>>

(* request.save(): the pushed contact and quote reach the stored arrays;   *)
(* a failed write sends the handler to its catch block.                     *)
ContactSaveRequest(i) ==
  LET me == proc[i] IN
  /\ me.pc = "c_saveRequest"
  /\ \/ /\ requests' = [requests EXCEPT
             ![me.lead].contactedProviders = Append(@, me.user),
             ![me.lead].quotes = Append(@, me.user),
             ![me.lead].quoteStatus = Append(@, "pending")]
        /\ proc' = [proc EXCEPT ![i].pc = "c_saveProvider"]
     \/ /\ proc' = [proc EXCEPT ![i] = Finish(i, "request_save_failed")]
        /\ UNCHANGED requests
  /\ UNCHANGED <<calc, sweep>>
  /\ UNCHANGED <<credits, stats, autoTopUp, ledger, intents, calls,
                 writes, applied, charged>>

(* provider.save(): credits (when charged) and the stats counters. *)
ContactSaveProvider(i) ==
  LET me == proc[i]
      p == me.user
      paid == me.amount > 0
  IN
  /\ me.pc = "c_saveProvider"
  /\ \/ /\ ValidCredits(me.dcredits)
        /\ credits' = [credits EXCEPT ![p] = IF paid THEN me.dcredits ELSE @]
        /\ stats' = [stats EXCEPT
             ![p].leadsContacted = me.dstats.leadsContacted + 1,
             ![p].creditsSpent =
                IF paid THEN me.dstats.creditsSpent + me.amount ELSE @]
        /\ writes' = [writes EXCEPT ![p] = IF paid THEN @ + 1 ELSE @]
        /\ charged' = [charged EXCEPT ![p][me.lead] = IF paid THEN @ + 1 ELSE @]
        /\ proc' = [proc EXCEPT ![i] =
             [Finish(i, "ok") EXCEPT !.disclosed = {me.lead}]]
     \/ /\ proc' = [proc EXCEPT ![i] = Finish(i, "provider_save_failed")]
        /\ UNCHANGED <<credits, stats, writes, charged>>
  /\ UNCHANGED <<calc, sweep>>
  /\ UNCHANGED <<autoTopUp, ledger, requests, intents, calls, applied>>

----------------------------------------------------------------------------
(* GET /contact/:leadId/check  (routes/request.js) *)

(* The handler up to its second await: User.findById. *)
CheckStart(i, p, l) ==
  /\ Takes(i)
  /\ calls < MaxCalls
  /\ calls' = calls + 1
  /\ proc' = [proc EXCEPT ![i] =
       [IdleProc EXCEPT !.pc = "k_findRequest", !.op = "check", !.user = p,
                        !.lead = l, !.dcredits = credits[p],
                        !.dstats = stats[p], !.ver = writes[p]]]
  /\ UNCHANGED <<calc, sweep>>
  /\ UNCHANGED <<credits, stats, autoTopUp, ledger, requests, intents,
                 writes, applied, charged>>

(* The cost the check route computes: the category is populated with       *)
(* 'name slug pricingInfo'.                                                *)
CheckLeadCost(l) ==
  RequestLeadCost(LeadCategorySlug(l), LeadCity(l), LeadUrgency(l),
                  Len(requests[l].quotes))

(* What the check route answers for a provider holding c credits. *)
CheckQuote(p, l, c) ==
  LET r == requests[l]
      leadCost == CheckLeadCost(l)
      isFree == leadCost <= 3 \/ PromotionalLead(l)
  IN IF ~IsActive(r) THEN [outcome |-> "inactive", cost |-> 0,
                           affordable |-> FALSE]
     ELSE IF Includes(r.contactedProviders, p)
       THEN [outcome |-> "duplicate", cost |-> 0, affordable |-> FALSE]
     ELSE [outcome |-> "ok", cost |-> leadCost,
           affordable |-> (isFree \/ c >= leadCost)]

(* The check route mistaken for the contact route's bookkeeping: it counts *)
(* the lead as contacted.                                                  *)
CheckFindRequestCounting(i) ==
  LET me == proc[i]
      q == CheckQuote(me.user, me.lead, me.dcredits)
  IN
  /\ me.pc = "k_findRequest"
  /\ proc' = [proc EXCEPT ![i] =
       [Finish(i, q.outcome) EXCEPT !.cost = q.cost,
                                    !.affordable = q.affordable]]
  /\ stats' = [stats EXCEPT ![me.user].leadsContacted = @ + 1]
  /\ UNCHANGED <<calc, sweep>>
  /\ UNCHANGED <<credits, autoTopUp, ledger, requests, intents, calls,
                 writes, applied, charged>>

(* Request.findById, the checks and the answer. *)
CheckFindRequest(i) ==
  LET me == proc[i]
      q == CheckQuote(me.user, me.lead, me.dcredits)
  IN
  /\ me.pc = "k_findRequest"
  /\ proc' = [proc EXCEPT ![i] =
       [Finish(i, q.outcome) EXCEPT !.cost = q.cost,
                                    !.affordable = q.affordable]]
  /\ UNCHANGED <<calc, sweep>>
  /\ UNCHANGED <<credits, stats, autoTopUp, ledger, requests, intents, calls,
                 writes, applied, charged>>

----------------------------------------------------------------------------
(* POST /credits/purchase  (routes/request.js) *)

PurchaseStart(i, p, amt) ==
  /\ Takes(i)
  /\ calls < MaxCalls
  /\ calls' = calls + 1
  /\ proc' = [proc EXCEPT ![i] =
       [IdleProc EXCEPT !.pc = "pu_save", !.op = "purchase", !.user = p,
                        !.amount = amt, !.ver = writes[p],
                        !.dcredits = credits[p] + amt,
                        !.dstats = [stats[p] EXCEPT
                           !.totalCreditsPurchased = @ + amt]]]
  /\ UNCHANGED <<calc, sweep>>
  /\ UNCHANGED <<credits, stats, autoTopUp, ledger, requests, intents,
                 writes, applied, charged>>

PurchaseSave(i) ==
  LET me == proc[i]
      p == me.user
  IN
  /\ me.pc = "pu_save"
  /\ credits' = [credits EXCEPT ![p] = me.dcredits]
  /\ stats' = [stats EXCEPT
       ![p].totalCreditsPurchased = me.dstats.totalCreditsPurchased]
  /\ writes' = [writes EXCEPT ![p] = @ + 1]
  /\ proc' = [proc EXCEPT ![i] = Finish(i, "ok")]
  /\ UNCHANGED <<calc, sweep>>
  /\ UNCHANGED <<autoTopUp, ledger, requests, intents, calls, applied, charged>>

----------------------------------------------------------------------------
(* The payment processor.  POST /create-payment-intent stores the credits  *)
(* as a decimal string in the intent's metadata; /confirm-payment parses   *)
(* it back.                                                                 *)

RECURSIVE NumToString(_)
NumToString(n) ==
  IF n < 10 THEN <<n>> ELSE Append(NumToString(n \div 10), n % 10)

RECURSIVE ParseInt(_)
ParseInt(s) ==
  IF Len(s) = 0 THEN 0
  ELSE 10 * ParseInt(SubSeq(s, 1, Len(s) - 1)) + s[Len(s)]

(* POST /create-payment-intent: an intent for this customer, not yet paid. *)
CreatePaymentIntent(p, amt, auto, pkg) ==
  /\ \E k \in IntentIds :
       /\ intents[k].status = "none"
       /\ intents' = [intents EXCEPT ![k] =
            [status |-> "requires_payment_method", customer |-> p,
             credits |-> NumToString(amt), autoTopUp |-> auto,
             packageType |-> pkg, purpose |-> "credit_purchase",
             everFailed |-> FALSE]]
  /\ UNCHANGED <<calc, sweep>>
  /\ UNCHANGED <<credits, stats, autoTopUp, ledger, requests, proc, calls,
                 writes, applied, charged>>

(* The customer completes the card payment on the processor's side. *)
PaymentSucceeds(k) ==
  /\ intents[k].status = "requires_payment_method"
  /\ intents' = [intents EXCEPT ![k].status = "succeeded"]
  /\ UNCHANGED <<calc, sweep>>
  /\ UNCHANGED <<credits, stats, autoTopUp, ledger, requests, proc, calls,
                 writes, applied, charged>>

(* A payment attempt on the processor's side is declined: the intent goes  *)
(* back to requires_payment_method and a payment_failed event is emitted.  *)
PaymentFails(k) ==
  /\ intents[k].status = "requires_payment_method"
  /\ ~intents[k].everFailed
  /\ intents' = [intents EXCEPT ![k].everFailed = TRUE]
  /\ UNCHANGED <<calc, sweep>>
  /\ UNCHANGED <<credits, stats, autoTopUp, ledger, requests, proc, calls,
                 writes, applied, charged>>

(* creditTransactionSchema.pre('save'): a new completed entry whose        *)
(* balanceAfter is falsy gets the stored balance plus its amount.          *)
PreSaveBalanceAfter(given, stored, amount) ==
  IF given = 0 THEN stored + amount ELSE given

(* The unique sparse index on stripePaymentIntentId. *)
DuplicateRef(ref) ==
  ref # NoRef /\ \E n \in 1..Len(ledger) : ledger[n].ref = ref

LedgerEntry(p, type, amount, ref, lead, balanceAfter) ==
  [user |-> p, type |-> type, amount |-> amount, ref |-> ref, lead |-> lead,
   status |-> "completed",
   balanceAfter |-> PreSaveBalanceAfter(balanceAfter, credits[p], amount)]

----------------------------------------------------------------------------
(* POST /confirm-payment  (routes/stripe.js) *)

(* User.findById, paymentIntents.retrieve, the ownership and status checks *)
(* and the changes made in memory before user.save() is awaited.           *)
ConfirmStart(i, p, k, l) ==
  LET pi == intents[k]
      bought == ParseInt(pi.credits)
      base == [IdleProc EXCEPT !.op = "confirm", !.user = p, !.lead = l,
                               !.ref = k, !.ver = writes[p],
                               !.dcredits = credits[p], !.dstats = stats[p]]
  IN
  /\ Takes(i)
  /\ calls < MaxCalls
  /\ pi.status # "none"
  /\ calls' = calls + 1
  /\ proc' = [proc EXCEPT ![i] =
       IF pi.customer # p
         THEN [base EXCEPT !.pc = "done", !.outcome = "unauthorized"]
       ELSE IF pi.status # "succeeded"
         THEN [base EXCEPT !.pc = "done", !.outcome = "not_completed"]
       ELSE [base EXCEPT !.pc = "cp_saveUser", !.amount = bought,
                         !.dcredits = credits[p] + bought,
                         !.dstats = [stats[p] EXCEPT
                            !.totalCreditsPurchased = @ + bought]]]
  /\ UNCHANGED <<calc, sweep>>
  /\ UNCHANGED <<credits, stats, autoTopUp, ledger, requests, intents,
                 writes, applied, charged>>

(* user.save(): credits, stats and the auto top-up preference. *)
ConfirmSaveUser(i) ==
  LET me == proc[i]
      p == me.user
      pi == intents[me.ref]
  IN
  /\ me.pc = "cp_saveUser"
  /\ credits' = [credits EXCEPT ![p] = me.dcredits]
  /\ stats' = [stats EXCEPT
       ![p].totalCreditsPurchased = me.dstats.totalCreditsPurchased]
  /\ autoTopUp' = [autoTopUp EXCEPT ![p] =
       IF pi.autoTopUp
         THEN [enabled |-> TRUE, paymentMethodId |-> TRUE, threshold |-> 10,
               packageType |-> pi.packageType]
         ELSE @]
  /\ writes' = [writes EXCEPT ![p] = @ + 1]
  /\ applied' = [applied EXCEPT ![me.ref] = @ + 1]
  /\ proc' = [proc EXCEPT ![i].pc = "cp_saveTx"]
  /\ UNCHANGED <<calc, sweep>>
  /\ UNCHANGED <<ledger, requests, intents, calls, charged>>

(* creditTransaction.save(): the purchase entry; a second entry with the   *)
(* same payment intent id is refused by the unique index and the handler   *)
(* answers 500.                                                             *)
ConfirmSaveTx(i) ==
  LET me == proc[i]
      p == me.user
  IN
  /\ me.pc = "cp_saveTx"
  /\ IF DuplicateRef(me.ref)
       THEN /\ proc' = [proc EXCEPT ![i] = Finish(i, "error")]
            /\ UNCHANGED ledger
       ELSE /\ ledger' = Append(ledger,
                 LedgerEntry(p, "purchase", me.amount, me.ref, NoLead, 0))
            /\ proc' = [proc EXCEPT ![i] =
                 IF me.lead = NoLead THEN Finish(i, "ok")
                 ELSE [me EXCEPT !.pc = "cp_findRequest"]]
  /\ UNCHANGED <<calc, sweep>>
  /\ UNCHANGED <<credits, stats, autoTopUp, requests, intents, calls,
                 writes, applied, charged>>

(* The cost the auto contact computes. *)
AutoContactLeadCost(l) ==
  StripeLeadCost(LeadBudget(l), LeadUrgency(l), PromotionalLead(l))

(* Request.findById and the auto contact's checks; whatever goes wrong     *)
(* from here on is caught and the payment still answers success.           *)
ConfirmFindRequest(i) ==
  LET me == proc[i]
      r == requests[me.lead]
      leadCost == AutoContactLeadCost(me.lead)
  IN
  /\ me.pc = "cp_findRequest"
  /\ proc' = [proc EXCEPT ![i] =
       IF IsActive(r) /\ ~Includes(r.contactedProviders, me.user)
          /\ AutoContactAffordable(me.dcredits, leadCost)
         THEN [me EXCEPT !.pc = "cp_saveRequest", !.cost = leadCost,
                         !.dcredits = me.dcredits - leadCost]
         ELSE Finish(i, "ok_no_contact")]
  /\ UNCHANGED <<calc, sweep>>
  /\ UNCHANGED <<credits, stats, autoTopUp, ledger, requests, intents, calls,
                 writes, applied, charged>>

ConfirmSaveRequest(i) ==
  LET me == proc[i] IN
  /\ me.pc = "cp_saveRequest"
  /\ \/ /\ requests' = [requests EXCEPT
             ![me.lead].contactedProviders = Append(@, me.user),
             ![me.lead].quotes = Append(@, me.user),
             ![me.lead].quoteStatus = Append(@, "pending")]
        /\ proc' = [proc EXCEPT ![i].pc = "cp_saveUser2"]
     \/ /\ proc' = [proc EXCEPT ![i] = Finish(i, "ok_contact_error")]
        /\ UNCHANGED requests
  /\ UNCHANGED <<calc, sweep>>
  /\ UNCHANGED <<credits, stats, autoTopUp, ledger, intents, calls,
                 writes, applied, charged>>

(* The second user.save(): the balance less the lead cost. *)
ConfirmSaveUser2(i) ==
  LET me == proc[i]
      p == me.user
  IN
  /\ me.pc = "cp_saveUser2"
  /\ \/ /\ ValidCredits(me.dcredits)
        /\ credits' = [credits EXCEPT ![p] = me.dcredits]
        /\ writes' = [writes EXCEPT ![p] = @ + 1]
        /\ charged' = [charged EXCEPT ![p][me.lead] = @ + 1]
        /\ proc' = [proc EXCEPT ![i].pc = "cp_saveLeadTx"]
     \/ /\ proc' = [proc EXCEPT ![i] = Finish(i, "ok_contact_error")]
        /\ UNCHANGED <<credits, writes, charged>>
  /\ UNCHANGED <<calc, sweep>>
  /\ UNCHANGED <<stats, autoTopUp, ledger, requests, intents, calls, applied>>

(* leadTransaction.save(): the spend entry of the auto contact. *)
ConfirmSaveLeadTx(i) ==
  LET me == proc[i] IN
  /\ me.pc = "cp_saveLeadTx"
  /\ ledger' = Append(ledger,
       LedgerEntry(me.user, "spend", 0 - me.cost, NoRef, me.lead, 0))
  /\ proc' = [proc EXCEPT ![i].pc = "cp_saveStats"]
  /\ UNCHANGED <<calc, sweep>>
  /\ UNCHANGED <<credits, stats, autoTopUp, requests, intents, calls,
                 writes, applied, charged>>

(* The third user.save(): the stats counters. *)
ConfirmSaveStats(i) ==
  LET me == proc[i]
      p == me.user
  IN
  /\ me.pc = "cp_saveStats"
  /\ stats' = [stats EXCEPT
       ![p].leadsContacted = me.dstats.leadsContacted + 1,
       ![p].creditsSpent = me.dstats.creditsSpent + me.cost]
  /\ proc' = [proc EXCEPT ![i] =
       [Finish(i, "ok") EXCEPT !.disclosed = {me.lead}]]
  /\ UNCHANGED <<calc, sweep>>
  /\ UNCHANGED <<credits, autoTopUp, ledger, requests, intents, calls,
                 writes, applied, charged>>

----------------------------------------------------------------------------
(* userSchema.methods.spendCredits, called on a loaded user document. *)

(* The caller's User.findById. *)
SpendStart(i, p, amt, l) ==
  /\ Takes(i)
  /\ calls < MaxCalls
  /\ calls' = calls + 1
  /\ proc' = [proc EXCEPT ![i] =
       [IdleProc EXCEPT !.pc = "sp_call", !.op = "spend", !.user = p,
                        !.lead = l, !.cost = amt, !.ver = writes[p],
                        !.dcredits = credits[p], !.dstats = stats[p]]]
  /\ UNCHANGED <<calc, sweep>>
  /\ UNCHANGED <<credits, stats, autoTopUp, ledger, requests, intents,
                 writes, applied, charged>>

(* The check, the in-memory debit and CreditTransaction.create. *)
SpendCredits(i) ==
  LET me == proc[i]
      p == me.user
      left == me.dcredits - me.cost
  IN
  /\ me.pc = "sp_call"
  /\ IF SpendInsufficient(me.dcredits, me.cost)
       THEN /\ proc' = [proc EXCEPT ![i] = Finish(i, "insufficient")]
            /\ UNCHANGED ledger
       ELSE /\ ledger' = Append(ledger,
                 LedgerEntry(p, "spend", 0 - me.cost, NoRef, me.lead, left))
            /\ proc' = [proc EXCEPT ![i] =
                 [me EXCEPT !.pc = "sp_save", !.amount = me.cost,
                            !.dcredits = left,
                            !.dstats = [me.dstats EXCEPT
                               !.creditsSpent = @ + me.cost]]]
  /\ UNCHANGED <<calc, sweep>>
  /\ UNCHANGED <<credits, stats, autoTopUp, requests, intents, calls,
                 writes, applied, charged>>

(* this.save() *)
SpendSave(i) ==
  LET me == proc[i]
      p == me.user
  IN
  /\ me.pc = "sp_save"
  /\ IF ValidCredits(me.dcredits)
       THEN /\ credits' = [credits EXCEPT ![p] = me.dcredits]
            /\ stats' = [stats EXCEPT
                 ![p].creditsSpent = me.dstats.creditsSpent]
            /\ writes' = [writes EXCEPT ![p] = @ + 1]
            /\ proc' = [proc EXCEPT ![i] = Finish(i, "ok")]
       ELSE /\ proc' = [proc EXCEPT ![i] = Finish(i, "validation_failed")]
            /\ UNCHANGED <<credits, stats, writes>>
  /\ UNCHANGED <<calc, sweep>>
  /\ UNCHANGED <<autoTopUp, ledger, requests, intents, calls, applied, charged>>

----------------------------------------------------------------------------
(* The auto top-up sweep: checkAndProcessAutoTopUps runs processAutoTopUp  *)
(* for every user findUsersNeedingAutoTopUp returns (utils/stripeUtils.js) *)

PackageCredits(pkg) ==
  CASE pkg = "starter" -> 280
    [] pkg = "professional" -> 560
    [] pkg = "business" -> 1120

(* userSchema.statics.findUsersNeedingAutoTopUp *)
NeedsAutoTopUp(p) ==
  /\ autoTopUp[p].enabled
  /\ autoTopUp[p].paymentMethodId
  /\ credits[p] <= autoTopUp[p].threshold

(* userSchema.methods.shouldAutoTopUp, on the loaded document *)
ShouldAutoTopUp(cfg, c) ==
  cfg.enabled /\ cfg.paymentMethodId /\ c <= cfg.threshold

(* The sweep selects the user and starts processAutoTopUp for it. *)
AutoTopUpStart(i, p) ==
  /\ Takes(i)
  /\ calls < MaxCalls
  /\ NeedsAutoTopUp(p)
  /\ calls' = calls + 1
  /\ proc' = [proc EXCEPT ![i] =
       [IdleProc EXCEPT !.pc = "at_load", !.op = "autotopup", !.user = p,
                        !.ref = <<"auto", calls + 1>>]]
  /\ UNCHANGED <<calc, sweep>>
  /\ UNCHANGED <<credits, stats, autoTopUp, ledger, requests, intents,
                 writes, applied, charged>>

(* processAutoTopUp: User.findById and shouldAutoTopUp. *)
AutoTopUpLoad(i) ==
  LET me == proc[i]
      p == me.user
  IN
  /\ me.pc = "at_load"
  /\ proc' = [proc EXCEPT ![i] =
       IF ~ShouldAutoTopUp(autoTopUp[p], credits[p])
         THEN Finish(i, "not_needed")
         ELSE [me EXCEPT !.pc = "at_charge", !.ver = writes[p],
                         !.amount = PackageCredits(autoTopUp[p].packageType),
                         !.dcredits = credits[p], !.dstats = stats[p]]]
  /\ UNCHANGED <<calc, sweep>>
  /\ UNCHANGED <<credits, stats, autoTopUp, ledger, requests, intents, calls,
                 writes, applied, charged>>

(* userSchema.methods.addCredits up to its save: the in-memory credit and  *)
(* CreditTransaction.create.                                                *)
AddCredits(i) ==
  LET me == proc[i]
      p == me.user
      more == me.dcredits + me.amount
  IN
  /\ ledger' = Append(ledger,
       LedgerEntry(p, "purchase", me.amount, me.ref, NoLead, more))
  /\ proc' = [proc EXCEPT ![i] =
       [me EXCEPT !.pc = "at_save", !.dcredits = more,
                  !.dstats = [me.dstats EXCEPT
                     !.totalCreditsPurchased = @ + me.amount]]]

(* The payment intent of the off-session charge, with its metadata. *)
AutoIntent(p, pkg, status) ==
  [status |-> status, customer |-> p,
   credits |-> NumToString(PackageCredits(pkg)), autoTopUp |-> FALSE,
   packageType |-> pkg, purpose |-> "auto_topup",
   everFailed |-> (status = "failed")]

(* The charge with a catch block that only logs: auto top-up stays        *)
(* enabled after authentication_required.                                  *)
AutoTopUpChargeKeepingFlag(i) ==
  LET me == proc[i]
      p == me.user
      pkg == autoTopUp[p].packageType
  IN
  /\ me.pc = "at_charge"
  /\ \/ /\ AddCredits(i)
        /\ intents' = [intents EXCEPT ![me.ref] = AutoIntent(p, pkg, "succeeded")]
     \/ /\ proc' = [proc EXCEPT ![i] = Finish(i, "payment_failed")]
        /\ intents' = [intents EXCEPT ![me.ref] = AutoIntent(p, pkg, "failed")]
        /\ UNCHANGED ledger
     \/ /\ intents' = [intents EXCEPT ![me.ref] = AutoIntent(p, pkg, "failed")]
        /\ proc' = [proc EXCEPT ![i] = Finish(i, "authentication_required")]
        /\ UNCHANGED ledger
  /\ UNCHANGED <<calc, sweep>>
  /\ UNCHANGED <<credits, stats, autoTopUp, requests, calls, writes, applied,
                 charged>>

(* The off-session charge returns: succeeded (addCredits follows); or the  *)
(* payment fails (the card is declined, or the intent comes back in        *)
(* another status); or it fails with authentication_required (auto top-up  *)
(* is disabled in the catch block).                                        *)
AutoTopUpCharge(i) ==
  LET me == proc[i]
      p == me.user
      pkg == autoTopUp[p].packageType
  IN
  /\ me.pc = "at_charge"
  /\ \/ /\ AddCredits(i)
        /\ intents' = [intents EXCEPT ![me.ref] = AutoIntent(p, pkg, "succeeded")]
        /\ UNCHANGED autoTopUp
     \/ /\ proc' = [proc EXCEPT ![i] = Finish(i, "payment_failed")]
        /\ intents' = [intents EXCEPT ![me.ref] = AutoIntent(p, pkg, "failed")]
        /\ UNCHANGED <<ledger, autoTopUp>>
     \/ /\ autoTopUp' = [autoTopUp EXCEPT ![p].enabled = FALSE]
        /\ intents' = [intents EXCEPT ![me.ref] = AutoIntent(p, pkg, "failed")]
        /\ proc' = [proc EXCEPT ![i] = Finish(i, "authentication_required")]
        /\ UNCHANGED ledger
  /\ UNCHANGED <<calc, sweep>>
  /\ UNCHANGED <<credits, stats, requests, calls, writes, applied,
                 charged>>

(* addCredits: this.save() *)
AutoTopUpSave(i) ==
  LET me == proc[i]
      p == me.user
  IN
  /\ me.pc = "at_save"
  /\ credits' = [credits EXCEPT ![p] = me.dcredits]
  /\ stats' = [stats EXCEPT
       ![p].totalCreditsPurchased = me.dstats.totalCreditsPurchased]
  /\ writes' = [writes EXCEPT ![p] = @ + 1]
  /\ proc' = [proc EXCEPT ![i] = Finish(i, "ok")]
  /\ UNCHANGED <<calc, sweep>>
  /\ UNCHANGED <<autoTopUp, ledger, requests, intents, calls, applied, charged>>

----------------------------------------------------------------------------
(* The life of a request, and the customer's route to contact a provider.  *)

(* Time passes the request's expiresAt. *)
RequestExpires(l) ==
  /\ ~requests[l].expired
  /\ Cardinality({k \in Leads : requests[k].expired}) < MaxExpired
  /\ requests' = [requests EXCEPT ![l].expired = TRUE]
  /\ UNCHANGED <<credits, stats, autoTopUp, ledger, intents, proc, calls,
                 writes, applied, charged, calc, sweep>>

(* PATCH /:id/cancel  (routes/request.js) *)
CancelRequest(l) ==
  /\ calls < MaxCalls
  /\ requests[l].status \in ActiveStatuses
  /\ calls' = calls + 1
  /\ requests' = [requests EXCEPT ![l].status = "cancelled"]
  /\ UNCHANGED <<credits, stats, autoTopUp, ledger, intents, proc,
                 writes, applied, charged, calc, sweep>>

(* $addToSet on analytics.contactedProviders *)
AddToSet(seq, x) == IF Includes(seq, x) THEN seq ELSE Append(seq, x)

(* POST /:requestId/contact/:providerId  (routes/lead.js): the request's   *)
(* owner contacts a provider.                                              *)
LeadContactProvider(p, l) ==
  /\ calls < MaxCalls
  /\ calls' = calls + 1
  /\ requests' = [requests EXCEPT
       ![l].contactedProviders = AddToSet(@, p)]
  /\ UNCHANGED <<credits, stats, autoTopUp, ledger, intents, proc,
                 writes, applied, charged, calc, sweep>>

(* GET /getleads  (routes/request.js): the active requests the provider    *)
(* has no quote on, each with the customer populated with email and phone  *)
(* and returned as customer.email and customer.phone.                      *)
GetLeads(i, p) ==
  /\ Takes(i)
  /\ calls < MaxCalls
  /\ calls' = calls + 1
  /\ proc' = [proc EXCEPT ![i] =
       [IdleProc EXCEPT !.pc = "done", !.op = "getleads", !.user = p,
                        !.outcome = "ok",
                        !.disclosed = {l \in Leads :
                           /\ IsActive(requests[l])
                           /\ ~Includes(requests[l].quotes, p)}]]
  /\ UNCHANGED <<credits, stats, autoTopUp, ledger, requests, intents,
                 writes, applied, charged, calc, sweep>>

(* POST /:id/quotes  (routes/request.js): a provider submits a quote. *)
SubmitQuote(p, l) ==
  LET r == requests[l] IN
  /\ IsActive(r)
  /\ ~Includes(r.quotes, p)
  /\ requests' = [requests EXCEPT
       ![l].quotes = Append(@, p),
       ![l].quoteStatus = Append(@, "pending"),
       ![l].status = IF Len(r.quotes) + 1 = 1 THEN "quotes_received" ELSE @]
  /\ UNCHANGED <<credits, stats, autoTopUp, ledger, intents, proc, calls,
                 writes, applied, charged, calc, sweep>>

(* POST /:id/quotes/:quoteId/accept  (routes/request.js): the owner        *)
(* accepts quote q.                                                        *)
AcceptQuote(l, q) ==
  LET r == requests[l] IN
  /\ q \in 1..Len(r.quotes)
  /\ r.quoteStatus[q] = "pending"
  /\ requests' = [requests EXCEPT
       ![l].selectedProvider = r.quotes[q],
       ![l].status = "provider_selected",
       ![l].quoteStatus = [n \in 1..Len(r.quotes) |->
            IF n = q THEN "accepted"
            ELSE IF r.quoteStatus[n] = "pending" THEN "rejected"
            ELSE r.quoteStatus[n]]]
  /\ UNCHANGED <<credits, stats, autoTopUp, ledger, intents, proc, calls,
                 writes, applied, charged, calc, sweep>>

(* POST /:id/start  (routes/request.js): the selected provider starts. *)
StartProject(p, l) ==
  /\ requests[l].selectedProvider = p
  /\ requests[l].status = "provider_selected"
  /\ requests' = [requests EXCEPT ![l].status = "in_progress"]
  /\ UNCHANGED <<credits, stats, autoTopUp, ledger, intents, proc, calls,
                 writes, applied, charged, calc, sweep>>

(* POST /:id/complete  (routes/request.js) *)
CompleteProject(p, l) ==
  /\ requests[l].selectedProvider = p
  /\ requests[l].status = "in_progress"
  /\ requests' = [requests EXCEPT ![l].status = "completed"]
  /\ UNCHANGED <<credits, stats, autoTopUp, ledger, intents, proc, calls,
                 writes, applied, charged, calc, sweep>>

----------------------------------------------------------------------------

Continue(i) ==
  \/ CheckFindRequest(i)
  \/ ContactFindRequest(i)
  \/ ContactSaveRequest(i)
  \/ ContactSaveProvider(i)
  \/ PurchaseSave(i)
  \/ ConfirmSaveUser(i)
  \/ ConfirmSaveTx(i)
  \/ ConfirmFindRequest(i)
  \/ ConfirmSaveRequest(i)
  \/ ConfirmSaveUser2(i)
  \/ ConfirmSaveLeadTx(i)
  \/ ConfirmSaveStats(i)
  \/ SpendCredits(i)
  \/ SpendSave(i)
  \/ AutoTopUpLoad(i)
  \/ AutoTopUpCharge(i)
  \/ AutoTopUpSave(i)

(* No handler in flight. *)
Quiet == \A i \in Procs : Free(i)

(* A handler is called; when sequential, only while no other is in flight. *)
Start(i, sequential) ==
  \/ \E p \in Providers, l \in Leads, u \in BOOLEAN :
        (sequential => Quiet) /\ ContactStart(i, p, l, u)
  \/ \E p \in Providers, a \in PurchaseAmounts :
        (sequential => Quiet) /\ PurchaseStart(i, p, a)
  \/ \E p \in Providers, k \in IntentIds, l \in Leads \cup {NoLead} :
        (sequential => Quiet) /\ ConfirmStart(i, p, k, l)
  \/ \E p \in Providers, a \in SpendAmounts, l \in Leads :
        (sequential => Quiet) /\ SpendStart(i, p, a, l)
  \/ \E p \in Providers :
        (sequential => Quiet) /\ AutoTopUpStart(i, p)
  \/ \E p \in Providers, l \in Leads :
        (sequential => Quiet) /\ CheckStart(i, p, l)

(* CreditTransaction.findOneAndUpdate({ stripePaymentIntentId }, ...) *)
SetStatusByRef(ref, status) ==
  [n \in 1..Len(ledger) |->
     IF ledger[n].ref = ref THEN [ledger[n] EXCEPT !.status = status]
     ELSE ledger[n]]

(* POST /webhook, event payment_intent.succeeded  (routes/stripe.js) *)
WebhookPaymentSucceeded(k) ==
  /\ calls < MaxCalls
  /\ intents[k].status = "succeeded"
  /\ calls' = calls + 1
  /\ ledger' = SetStatusByRef(k, "completed")
  /\ UNCHANGED <<credits, stats, autoTopUp, requests, intents, proc,
                 writes, applied, charged, calc, sweep>>

(* POST /webhook, event payment_intent.payment_failed  (routes/stripe.js): *)
(* an event emitted earlier is delivered, at any later time and any number *)
(* of times.                                                               *)
WebhookPaymentFailed(k) ==
  /\ calls < MaxCalls
  /\ intents[k].everFailed
  /\ calls' = calls + 1
  /\ ledger' = SetStatusByRef(k, "failed")
  /\ UNCHANGED <<credits, stats, autoTopUp, requests, intents, proc,
                 writes, applied, charged, calc, sweep>>

(* The handlers that write once. *)
Single(sequential) ==
  \/ \E l \in Leads : (sequential => Quiet) /\ CancelRequest(l)
  \/ \E p \in Providers, l \in Leads :
        (sequential => Quiet) /\ LeadContactProvider(p, l)
  \/ \E k \in AllIntentIds :
        (sequential => Quiet) /\ WebhookPaymentSucceeded(k)
  \/ \E k \in AllIntentIds :
        (sequential => Quiet) /\ WebhookPaymentFailed(k)

Clock == \E l \in Leads : RequestExpires(l)

Processor ==
  \/ \E p \in Providers, a \in PurchaseAmounts, auto \in BOOLEAN,
        pkg \in Packages : CreatePaymentIntent(p, a, auto, pkg)
  \/ \E k \in IntentIds : PaymentSucceeds(k)

Next ==
  \/ \E i \in Procs : Start(i, FALSE)
  \/ \E i \in Procs : Continue(i)
  \/ Single(FALSE)
  \/ Clock
  \/ Processor

(* Every interleaving of the handlers at their awaits. *)
Spec == Init /\ [][Next]_vars

(* The handlers called one after the other: a handler starts only when no  *)
(* other is in flight.                                                      *)
SeqNext ==
  \/ \E i \in Procs : Start(i, TRUE)
  \/ \E i \in Procs : Continue(i)
  \/ Single(TRUE)
  \/ Clock
  \/ Processor

SpecSeq == Init /\ [][SeqNext]_vars

(* The handlers one after the other, with payment attempts that may be     *)
(* declined before one succeeds.                                           *)
HookNext ==
  \/ SeqNext
  \/ \E k \in IntentIds : PaymentFails(k)

SpecHook == Init /\ [][HookNext]_vars

(* The routes that write a request, called one after the other: quotes,    *)
(* contacts (paid, or after a payment), acceptance, start, completion and  *)
(* cancellation.                                                           *)
LifeNext ==
  \/ \E i \in Procs, p \in Providers, l \in Leads, u \in BOOLEAN :
        Quiet /\ ContactStart(i, p, l, u)
  \/ \E i \in Procs, p \in Providers, k \in IntentIds, l \in Leads :
        Quiet /\ ConfirmStart(i, p, k, l)
  \/ \E i \in Procs : ContactFindRequest(i)
  \/ \E i \in Procs : ContactSaveRequest(i)
  \/ \E i \in Procs : ContactSaveProvider(i)
  \/ \E i \in Procs : ConfirmSaveUser(i)
  \/ \E i \in Procs : ConfirmSaveTx(i)
  \/ \E i \in Procs : ConfirmFindRequest(i)
  \/ \E i \in Procs : ConfirmSaveRequest(i)
  \/ \E i \in Procs : ConfirmSaveUser2(i)
  \/ \E i \in Procs : ConfirmSaveLeadTx(i)
  \/ \E i \in Procs : ConfirmSaveStats(i)
  \/ \E i \in Procs, p \in Providers : Quiet /\ GetLeads(i, p)
  \/ \E p \in Providers, l \in Leads : Quiet /\ SubmitQuote(p, l)
  \/ \E l \in Leads, q \in 1..MaxCalls : Quiet /\ AcceptQuote(l, q)
  \/ \E p \in Providers, l \in Leads : Quiet /\ StartProject(p, l)
  \/ \E p \in Providers, l \in Leads : Quiet /\ CompleteProject(p, l)
  \/ \E l \in Leads : Quiet /\ CancelRequest(l)
  \/ \E p \in Providers, l \in Leads : Quiet /\ LeadContactProvider(p, l)
  \/ Clock
  \/ Processor

SpecLife == Init /\ [][LifeNext]_vars

----------------------------------------------------------------------------
(* What the claims speak of. *)

(* The balance a finished or running handler read when it loaded the user. *)
LoadedBalance(i) ==
  IF proc[i].op \in {"contact", "spend"}
    THEN proc[i].dcredits + proc[i].amount
    ELSE proc[i].dcredits - proc[i].amount

(* A debit of the contact route or of spendCredits that answered success. *)
DebitDone(i) ==
  /\ proc[i].pc = "done"
  /\ proc[i].outcome = "ok"
  /\ proc[i].op \in {"contact", "spend"}
  /\ proc[i].amount > 0

(* A credit of confirm-payment (without auto contact) or of the auto       *)
(* top-up that answered success.                                           *)
CreditDone(i) ==
  /\ proc[i].pc = "done"
  /\ proc[i].outcome = "ok"
  /\ \/ proc[i].op = "confirm" /\ proc[i].lead = NoLead
     \/ proc[i].op = "autotopup"

(* Handler i takes a step. *)
Moves(i) == proc'[i] # proc[i]

RECURSIVE SumCompleted(_, _)
SumCompleted(n, p) ==
  IF n = 0 THEN 0
  ELSE SumCompleted(n - 1, p)
       + (IF ledger[n].user = p /\ ledger[n].status = "completed"
            THEN ledger[n].amount ELSE 0)

(* Sum of the signed amounts of the account's completed ledger entries. *)
LedgerSum(p) == SumCompleted(Len(ledger), p)

----------------------------------------------------------------------------
(* C1: after any sequence of credits and debits the stored balance is      *)
(* never negative, and a debit (contact route with useCredits, auto        *)
(* contact, spendCredits) whose amount exceeds the stored balance is       *)
(* rejected: the handler ends there and the balance is unchanged.          *)

DebitRejected(i) ==
  LET me == proc[i]
      p == me.user
      r == requests[me.lead]
      open == IsActive(r) /\ ~Includes(r.contactedProviders, p)
  IN
  /\ (/\ me.pc = "c_findRequest"
      /\ open /\ me.useCredits /\ ~ContactIsFree(me.lead)
      /\ credits[p] < ContactLeadCost(me.lead))
       => (proc'[i].pc = "done" /\ proc'[i].outcome = "insufficient"
           /\ credits' = credits)
  /\ (me.pc = "sp_call" /\ credits[p] < me.cost)
       => (proc'[i].pc = "done" /\ proc'[i].outcome = "insufficient"
           /\ credits' = credits /\ ledger' = ledger)
  /\ (/\ me.pc = "cp_findRequest"
      /\ open
      /\ credits[p] < AutoContactLeadCost(me.lead))
       => (proc'[i].pc = "done" /\ proc'[i].outcome = "ok_no_contact"
           /\ credits' = credits)

C1_BalanceNeverNegative ==
  /\ [](\A p \in Providers : credits[p] >= 0)
  /\ [][\A i \in Procs : Moves(i) => DebitRejected(i)]_vars

(* A debit of 4 or more was refused while the account held a positive      *)
(* balance, left over from an earlier successful debit.                    *)
C1_Witness ==
  \E i \in Procs :
    /\ proc[i].pc = "done"
    /\ proc[i].outcome = "insufficient"
    /\ proc[i].op \in {"contact", "spend"}
    /\ credits[proc[i].user] > 0
    /\ credits[proc[i].user] < proc[i].cost
    /\ stats[proc[i].user].creditsSpent > 0

----------------------------------------------------------------------------
(* C2: of two debits on one account that read the same balance, each       *)
(* within it and together beyond it, at most one succeeds.                 *)
C2_AtMostOneDebitSucceeds ==
  \A i, j \in Procs :
    (/\ i # j
     /\ DebitDone(i) /\ DebitDone(j)
     /\ proc[i].user = proc[j].user
     /\ proc[i].ver = proc[j].ver
     /\ proc[i].amount <= LoadedBalance(i)
     /\ proc[j].amount <= LoadedBalance(j))
      => proc[i].amount + proc[j].amount <= LoadedBalance(i)

----------------------------------------------------------------------------
(* C3: whenever no handler is in flight, the signed amounts of an          *)
(* account's completed ledger entries add up to its stored balance.        *)
C3_LedgerReconciles ==
  Quiet => \A p \in Providers : LedgerSum(p) = credits[p]

----------------------------------------------------------------------------
(* C4: a payment intent confirmed more than once is added to the balance   *)
(* once: while its confirmations are the only writes of the balance, the   *)
(* balance is the intent's credits.                                        *)
C4_CreditedOncePerIntent ==
  \A k \in IntentIds, p \in Providers :
    (/\ intents[k].customer = p
     /\ applied[k] >= 1
     /\ writes[p] = applied[k])
      => credits[p] = ParseInt(intents[k].credits)

----------------------------------------------------------------------------
(* C5: when the contact route is called again for a provider and request   *)
(* already contacted, the call fails as a duplicate and the provider has   *)
(* been debited exactly once for that request.                             *)
C5_DebitedExactlyOnce ==
  \A i \in Procs :
    (proc[i].pc = "done" /\ proc[i].op = "contact"
     /\ proc[i].outcome = "duplicate")
      => charged[proc[i].user][proc[i].lead] = 1

----------------------------------------------------------------------------
(* C6: under every interleaving a request holds at most one contact record *)
(* per provider and the provider is debited at most once for it.           *)
C6_AtMostOneContactRecord ==
  \A p \in Providers, l \in Leads :
    /\ Count(requests[l].contactedProviders, p) <= 1
    /\ Count(requests[l].quotes, p) <= 1
    /\ charged[p][l] <= 1

----------------------------------------------------------------------------
(* C7: a contact call on a lead that is not free, by a provider whose      *)
(* balance is below the lead cost, ends as insufficient credits (no write  *)
(* of the call having failed).                                             *)
C7_InsufficientCreditsRejected ==
  \A i \in Procs :
    (/\ proc[i].op = "contact"
     /\ proc[i].pc = "done"
     /\ proc[i].outcome \notin {"request_save_failed", "provider_save_failed"}
     /\ proc[i].cost > 3 /\ ~PromotionalLead(proc[i].lead)
     /\ LoadedBalance(i) < proc[i].cost)
      => proc[i].outcome = "insufficient"

----------------------------------------------------------------------------
(* C8: every debit or credit that answered success left a completed ledger *)
(* entry of the account with the signed amount of the balance change.      *)
HasEntry(p, type, amount, lead) ==
  \E n \in 1..Len(ledger) :
    /\ ledger[n].user = p /\ ledger[n].type = type
    /\ ledger[n].amount = amount /\ ledger[n].lead = lead
    /\ ledger[n].status = "completed"

C8_OneLedgerEntryPerChange ==
  \A i \in Procs :
    /\ DebitDone(i)
         => HasEntry(proc[i].user, "spend", 0 - proc[i].amount, proc[i].lead)
    /\ CreditDone(i)
         => HasEntry(proc[i].user, "purchase", proc[i].amount, NoLead)

----------------------------------------------------------------------------
(* C9: once a contact call that was to be paid has ended, whatever the     *)
(* outcome of its writes, the request holds the provider's contact record  *)
(* exactly when the provider's debit is stored.                            *)
C9_RecordIffDebit ==
  \A i \in Procs :
    (/\ proc[i].pc = "done"
     /\ proc[i].op = "contact"
     /\ proc[i].amount > 0)
      => (Includes(requests[proc[i].lead].contactedProviders, proc[i].user)
            <=> charged[proc[i].user][proc[i].lead] > 0)

----------------------------------------------------------------------------
(* C10: when a credit and a contact debit on one account read the same     *)
(* balance and both succeed, and theirs are the only writes since, the     *)
(* stored balance is that balance plus the credit minus the debit.         *)
C10_NoLostUpdate ==
  \A i, j \in Procs :
    (/\ CreditDone(i) /\ DebitDone(j) /\ proc[j].op = "contact"
     /\ proc[i].user = proc[j].user
     /\ proc[i].ver = proc[j].ver
     /\ writes[proc[i].user] = proc[i].ver + 2)
      => credits[proc[i].user]
           = LoadedBalance(j) + proc[i].amount - proc[j].amount

----------------------------------------------------------------------------
(* C11: an account never has two auto top-up charge attempts outstanding:  *)
(* while one processAutoTopUp awaits the outcome of its charge, no other   *)
(* sweep has issued a charge for the same account.                         *)
C11_OneChargeAttempt ==
  \A i, j \in Procs :
    (/\ i # j
     /\ proc[i].op = "autotopup" /\ proc[j].op = "autotopup"
     /\ proc[i].user = proc[j].user
     /\ proc[i].pc = "at_charge")
      => proc[j].pc # "at_charge"

----------------------------------------------------------------------------
(* C12: a confirm-payment call whose payment intent is already recorded on *)
(* a completed ledger entry, having been credited before, ends in success  *)
(* and not in an error.                                                    *)
C12_DuplicateRefIsSuccess ==
  \A i \in Procs :
    (/\ proc[i].op = "confirm"
     /\ proc[i].pc = "done"
     /\ proc[i].amount > 0
     /\ applied[proc[i].ref] >= 2
     /\ DuplicateRef(proc[i].ref))
      => proc[i].outcome \in {"ok", "ok_no_contact", "ok_contact_error"}

----------------------------------------------------------------------------
(* C13: a contact call that succeeded on a lead that is not free left the  *)
(* stored balance at the balance it loaded less the lead cost, whatever    *)
(* useCredits was.                                                         *)
C13_SuccessfulContactDebitsCost ==
  \A i \in Procs :
    (/\ proc[i].op = "contact"
     /\ proc[i].pc = "done"
     /\ proc[i].outcome = "ok"
     /\ proc[i].cost > 3 /\ ~PromotionalLead(proc[i].lead))
      => credits[proc[i].user] = LoadedBalance(i) - proc[i].cost

----------------------------------------------------------------------------
(* The three lead-cost helpers applied to given arguments. *)

CostBudgets == {0, 50, 100, 200, 500, 501, 1000, 1001, 2000}
CostUrgencies == {"urgent", "high", "medium", "low"}
CostSlugs == {"legal", "legal-services", "gardening"}
CostCities == {"London", "Smalltown"}
CostLeadsContacted == {0, 5}
CostQuoteCounts == {0, 2, 5}

CostInputs ==
  [budget : CostBudgets, urgency : CostUrgencies, slug : CostSlugs,
   city : CostCities, leadsContacted : CostLeadsContacted,
   promotional : BOOLEAN, quotesCount : CostQuoteCounts]

ComplexCategories == {"legal", "financial", "medical", "engineering"}
PremiumCities == {"london", "manchester", "birmingham", "leeds", "glasgow"}

(* The final Math.max(1, Math.min(cost, 20)) left out. *)
UtilsLeadCostUnclamped(budget, urgency, slug, city, leadsContacted, promotional) ==
  LET c1 == 5 + (IF budget >= 2000 THEN 8
                 ELSE IF budget >= 1000 THEN 5
                 ELSE IF budget >= 500 THEN 3
                 ELSE IF budget >= 200 THEN 2
                 ELSE IF budget >= 100 THEN 1 ELSE 0)
      c2 == c1 + (CASE urgency = "urgent" -> 4
                    [] urgency = "high" -> 2
                    [] urgency = "medium" -> 1
                    [] OTHER -> 0)
      c3 == IF slug \in ComplexCategories THEN c2 + 3 ELSE c2
      c4 == IF ToLowerCase(city) \in PremiumCities THEN c3 + 2 ELSE c3
      c5 == IF leadsContacted < 5 THEN Max(1, (c4 * 7) \div 10) ELSE c4
      c6 == IF promotional THEN Max(1, c5 \div 2) ELSE c5
  IN Max(1, c6)

(* calculateLeadCost of utils/stripeUtils.js.  Math.floor(cost * 0.7) is   *)
(* (cost * 7) \div 10 and Math.floor(cost * 0.5) is cost \div 2 on the     *)
(* integers that occur.                                                    *)
UtilsLeadCost(budget, urgency, slug, city, leadsContacted, promotional) ==
  LET c1 == 5 + (IF budget >= 2000 THEN 8
                 ELSE IF budget >= 1000 THEN 5
                 ELSE IF budget >= 500 THEN 3
                 ELSE IF budget >= 200 THEN 2
                 ELSE IF budget >= 100 THEN 1 ELSE 0)
      c2 == c1 + (CASE urgency = "urgent" -> 4
                    [] urgency = "high" -> 2
                    [] urgency = "medium" -> 1
                    [] OTHER -> 0)
      c3 == IF slug \in ComplexCategories THEN c2 + 3 ELSE c2
      c4 == IF ToLowerCase(city) \in PremiumCities THEN c3 + 2 ELSE c3
      c5 == IF leadsContacted < 5 THEN Max(1, (c4 * 7) \div 10) ELSE c4
      c6 == IF promotional THEN Max(1, c5 \div 2) ELSE c5
  IN Max(1, IF c6 <= 20 THEN c6 ELSE 20)

InitCost ==
  /\ InitStore
  /\ calc \in {[fn |-> "none", in |-> x, out |-> 0] : x \in CostInputs}

UtilsCalculateLeadCost ==
  /\ calc' = [calc EXCEPT !.fn = "utils",
       !.out = UtilsLeadCost(calc.in.budget, calc.in.urgency, calc.in.slug,
                             calc.in.city, calc.in.leadsContacted,
                             calc.in.promotional)]
  /\ UNCHANGED <<credits, stats, autoTopUp, ledger, requests, intents, proc,
                 calls, writes, applied, charged, sweep>>

RequestCalculateLeadCost ==
  /\ calc' = [calc EXCEPT !.fn = "request",
       !.out = RequestLeadCost(calc.in.slug, calc.in.city, calc.in.urgency,
                               calc.in.quotesCount)]
  /\ UNCHANGED <<credits, stats, autoTopUp, ledger, requests, intents, proc,
                 calls, writes, applied, charged, sweep>>

StripeCalculateLeadCost ==
  /\ calc' = [calc EXCEPT !.fn = "stripe",
       !.out = StripeLeadCost(calc.in.budget, calc.in.urgency,
                              calc.in.promotional)]
  /\ UNCHANGED <<credits, stats, autoTopUp, ledger, requests, intents, proc,
                 calls, writes, applied, charged, sweep>>

NextCost ==
  \/ UtilsCalculateLeadCost
  \/ RequestCalculateLeadCost
  \/ StripeCalculateLeadCost

(* The helpers applied, any number of times, to arguments fixed at the     *)
(* start.                                                                  *)
SpecCost == InitCost /\ [][NextCost]_vars

----------------------------------------------------------------------------
(* C14: calculateLeadCost of utils/stripeUtils.js, for budget 2000,        *)
(* urgency urgent, category legal, city London, not promotional and a      *)
(* provider with fewer than 5 leads contacted, returns 14.                 *)
C14_LegalLondonUrgentCosts14 ==
  (/\ calc.fn = "utils"
   /\ calc.in.budget = 2000 /\ calc.in.urgency = "urgent"
   /\ calc.in.slug = "legal" /\ calc.in.city = "London"
   /\ ~calc.in.promotional /\ calc.in.leadsContacted < 5)
    => calc.out = 14

----------------------------------------------------------------------------
(* C15: each lead-cost helper returns an integer between 1 and 20, and     *)
(* applied again to the same arguments returns the same integer.           *)
C15_CostDeterministicInRange ==
  /\ [](calc.fn # "none" => calc.out \in 1..20)
  /\ [][(calc'.fn = calc.fn /\ calc'.in = calc.in)
          => calc'.out = calc.out]_vars

(* The stripeUtils helper returned 20 on arguments whose sum is 22 before  *)
(* the clamp.                                                              *)
C15_Witness ==
  /\ calc.fn = "utils"
  /\ calc.in.budget = 2000 /\ calc.in.urgency = "urgent"
  /\ calc.in.slug = "legal" /\ calc.in.city = "London"
  /\ ~calc.in.promotional /\ calc.in.leadsContacted = 5
  /\ calc.out = 20

----------------------------------------------------------------------------
(* The three match-score helpers applied to given arguments.  Distances    *)
(* are in km, rating averages in tenths of a star (the schema bounds the   *)
(* average to 0..5), response times in hours; Absent stands for a field    *)
(* the document does not carry.                                            *)

Absent == 0 - 1

ScoreDistances == {Absent, 5, 20, 40, 80, 200}
ScoreBudgetFits == {"unspecified", "meets", "near", "below"}
ScoreRatings == {0, 35, 40, 45, 50}
ScoreRatingCounts == {0, 10}
ScoreExperiences == {0, 2, 5, 10}
ScoreResponseTimes == {Absent, 2, 6, 12, 24, 48}
ScoreTotalJobs == {0, 1, 25, 49, 50, 100}
ScoreAllRatings == 0..50

UtilsScoreInputs ==
  [for : {"utils"}, categoryMatch : BOOLEAN, distance : ScoreDistances,
   isNationwide : BOOLEAN, budgetFit : ScoreBudgetFits,
   rating : ScoreRatings, ratingCount : ScoreRatingCounts,
   experience : ScoreExperiences, isVerified : BOOLEAN,
   backgroundCheckVerified : BOOLEAN, emailVerified : BOOLEAN,
   responseTime : ScoreResponseTimes \ {12}]

RequestScoreInputs ==
  [for : {"request"}, categoryMatch : BOOLEAN, distance : ScoreDistances,
   rating : ScoreRatings, responseTime : ScoreResponseTimes,
   urgency : CostUrgencies]

LeadScoreInputs ==
  [for : {"lead"}, rating : ScoreAllRatings, totalJobs : ScoreTotalJobs,
   isVerified : BOOLEAN]

(* x <= bound in JavaScript, false when x is undefined *)
AtMost(x, bound) == x # Absent /\ x <= bound

(* The sum of the points of calculateMatchScore of utils/stripeUtils.js. *)
UtilsMatchPoints(a) ==
  (IF a.categoryMatch THEN 40 ELSE 0)
  + (IF a.distance # Absent
       THEN (IF a.distance <= 10 THEN 25
             ELSE IF a.distance <= 25 THEN 20
             ELSE IF a.distance <= 50 THEN 15
             ELSE IF a.distance <= 100 THEN 10 ELSE 0)
       ELSE IF a.isNationwide THEN 15 ELSE 0)
  + (CASE a.budgetFit = "meets" -> 20
       [] a.budgetFit = "near" -> 15
       [] a.budgetFit = "below" -> 0
       [] OTHER -> 10)
  + (IF a.rating >= 45 /\ a.ratingCount >= 10 THEN 15
     ELSE IF a.rating >= 40 THEN 10
     ELSE IF a.rating >= 35 THEN 5 ELSE 0)
  + (IF a.experience >= 10 THEN 10
     ELSE IF a.experience >= 5 THEN 7
     ELSE IF a.experience >= 2 THEN 5 ELSE 0)
  + (IF a.isVerified THEN 5 ELSE 0)
  + (IF a.backgroundCheckVerified THEN 3 ELSE 0)
  + (IF a.emailVerified THEN 2 ELSE 0)
  + (IF AtMost(a.responseTime, 2) THEN 5
     ELSE IF AtMost(a.responseTime, 6) THEN 3
     ELSE IF AtMost(a.responseTime, 24) THEN 1 ELSE 0)

(* The final Math.min(100, Math.max(0, score)) left out. *)
UtilsMatchScoreUnclamped(a) == UtilsMatchPoints(a)

(* calculateMatchScore of utils/stripeUtils.js *)
UtilsMatchScore(a) ==
  LET score == UtilsMatchPoints(a)
      low == IF score >= 0 THEN score ELSE 0
  IN IF low <= 100 THEN low ELSE 100

(* calculateMatchScore of routes/request.js; its calculateDistance answers *)
(* 1000 when coordinates are missing.                                      *)
RequestMatchScore(a) ==
  LET distance == IF a.distance = Absent THEN 1000 ELSE a.distance
      score ==
        (IF a.categoryMatch THEN 40 ELSE 0)
        + (IF distance <= 10 THEN 25
           ELSE IF distance <= 25 THEN 20
           ELSE IF distance <= 50 THEN 15 ELSE 0)
        + (IF a.rating >= 45 THEN 20
           ELSE IF a.rating >= 40 THEN 15
           ELSE IF a.rating >= 35 THEN 10 ELSE 0)
        + (IF AtMost(a.responseTime, 2) THEN 10
           ELSE IF AtMost(a.responseTime, 6) THEN 8
           ELSE IF AtMost(a.responseTime, 12) THEN 5 ELSE 0)
        + (IF a.urgency = "urgent" THEN 5 ELSE 0)
  IN IF score <= 100 THEN score ELSE 100

(* calculateMatchScore of routes/lead.js, computed in tenths of a point:   *)
(* (average / 5) * 40 is 8 tenths per tenth of a star, (jobs / 50) * 30 is *)
(* 6 tenths per job, and Math.round rounds the half up.                    *)
LeadMatchScore(a) ==
  LET rated == IF a.rating > 0 THEN a.rating * 8 ELSE 0
      jobs == IF a.totalJobs > 0
                THEN (IF a.totalJobs * 6 <= 300 THEN a.totalJobs * 6 ELSE 300)
                ELSE 0
      verified == IF a.isVerified THEN 200 ELSE 0
      tenths == rated + jobs + verified + 100
  IN (tenths + 5) \div 10

InitScore ==
  /\ InitStore
  /\ calc \in {[fn |-> "none", in |-> x, out |-> 0] :
                 x \in UtilsScoreInputs \cup RequestScoreInputs
                       \cup LeadScoreInputs}

UtilsCalculateMatchScore ==
  /\ calc.in.for = "utils"
  /\ calc' = [calc EXCEPT !.fn = "utils", !.out = UtilsMatchScore(calc.in)]
  /\ UNCHANGED <<credits, stats, autoTopUp, ledger, requests, intents, proc,
                 calls, writes, applied, charged, sweep>>

RequestCalculateMatchScore ==
  /\ calc.in.for = "request"
  /\ calc' = [calc EXCEPT !.fn = "request", !.out = RequestMatchScore(calc.in)]
  /\ UNCHANGED <<credits, stats, autoTopUp, ledger, requests, intents, proc,
                 calls, writes, applied, charged, sweep>>

LeadCalculateMatchScore ==
  /\ calc.in.for = "lead"
  /\ calc' = [calc EXCEPT !.fn = "lead", !.out = LeadMatchScore(calc.in)]
  /\ UNCHANGED <<credits, stats, autoTopUp, ledger, requests, intents, proc,
                 calls, writes, applied, charged, sweep>>

NextScore ==
  \/ UtilsCalculateMatchScore
  \/ RequestCalculateMatchScore
  \/ LeadCalculateMatchScore

SpecScore == InitScore /\ [][NextScore]_vars

----------------------------------------------------------------------------
(* C16: every match-score helper returns a value between 0 and 100.        *)
C16_MatchScoreBounded ==
  calc.fn # "none" => (calc.out >= 0 /\ calc.out <= 100)

(* The stripeUtils helper returned 100 for a provider whose points add up  *)
(* to more than 100.                                                       *)
C16_Witness ==
  /\ calc.fn = "utils"
  /\ UtilsMatchPoints(calc.in) > 100
  /\ calc.out = 100

----------------------------------------------------------------------------
(* C17: no step adds a provider to the contacted providers of, or appends  *)
(* a quote to, a request that is expired or whose status is outside the    *)
(* active ones.                                                            *)
C17_InactiveRequestImmutable ==
  [][\A l \in Leads :
       ~IsActive(requests[l])
         => /\ requests'[l].contactedProviders = requests[l].contactedProviders
            /\ requests'[l].quotes = requests[l].quotes]_vars

----------------------------------------------------------------------------
(* C18: when a payment_failed event of an auto top-up payment intent has   *)
(* been handled, the account's autoTopUp.enabled is false.                 *)
C18_FailedAutoTopUpDisables ==
  [][\A k \in AllIntentIds :
       (WebhookPaymentFailed(k) /\ intents[k].purpose = "auto_topup")
         => ~autoTopUp'[intents[k].customer].enabled]_vars

----------------------------------------------------------------------------
(* C19: handling a payment_succeeded event of a payment intent that has    *)
(* not been credited yet adds the intent's credits to the customer's       *)
(* balance and to the purchase stats.                                      *)
C19_SucceededEventCredits ==
  [][\A k \in IntentIds :
       (WebhookPaymentSucceeded(k) /\ applied[k] = 0)
         => LET p == intents[k].customer
                bought == ParseInt(intents[k].credits)
            IN /\ credits'[p] = credits[p] + bought
               /\ stats'[p].totalCreditsPurchased
                    = stats[p].totalCreditsPurchased + bought]_vars

----------------------------------------------------------------------------
(* C20: no step of the check route changes the balance, the stats, the     *)
(* auto top-up preference, the ledger or a request, whatever its outcome,  *)
(* and its answer is the quote of the stored state it leaves, so a call    *)
(* repeated right after returns the same quote.                            *)
C20_CheckContactChangesNothing ==
  [][\A i \in Procs :
       (Moves(i) /\ proc'[i].op = "check")
         => /\ UNCHANGED <<credits, stats, autoTopUp, ledger, requests>>
            /\ proc'[i].pc = "done"
                 => LET q == CheckQuote(proc'[i].user, proc'[i].lead,
                                        credits[proc'[i].user])
                    IN /\ proc'[i].outcome = q.outcome
                       /\ proc'[i].cost = q.cost
                       /\ proc'[i].affordable = q.affordable]_vars

(* The check route quoted a lead that the provider, holding a balance      *)
(* after earlier purchases and debits, can afford.                         *)
C20_Witness ==
  \E i \in Procs :
    /\ proc[i].op = "check"
    /\ proc[i].pc = "done"
    /\ proc[i].outcome = "ok"
    /\ proc[i].affordable
    /\ proc[i].cost > 3
    /\ credits[proc[i].user] > 0

----------------------------------------------------------------------------
(* The auto top-up sweep as a whole (checkAndProcessAutoTopUps), and the   *)
(* provider's own POST /auto-topup (routes/stripe.js).  Here every account *)
(* has one handler slot, proc[a]: Promise.allSettled runs one              *)
(* processAutoTopUp per selected account, all in flight together.          *)

MaxAccounts == 2
SweepAccounts == 1..MaxAccounts
SweepBalances == {5, 50}        \* below and above the threshold of 10
SweepIntentIds ==
  {<<"auto", a>> : a \in SweepAccounts} \cup {<<"route", a>> : a \in SweepAccounts}

AutoTopUpOn == [enabled |-> TRUE, paymentMethodId |-> TRUE, threshold |-> 10,
                packageType |-> "starter"]

InitSweep ==
  /\ credits \in [SweepAccounts -> SweepBalances]
  /\ stats = [a \in SweepAccounts |-> ZeroStats]
  /\ autoTopUp \in [SweepAccounts -> {NoAutoTopUp, AutoTopUpOn}]
  /\ ledger = <<>>
  /\ requests = [l \in Leads |-> NewRequest]
  /\ intents = [k \in SweepIntentIds |-> NoIntent]
  /\ proc = [a \in SweepAccounts |-> IdleProc]
  /\ calls = 0
  /\ writes = [a \in SweepAccounts |-> 0]
  /\ applied = [k \in IntentIds |-> 0]
  /\ charged = [a \in SweepAccounts |-> [l \in Leads |-> 0]]
  /\ calc = NoCalc
  /\ sweep = NoSweep

(* findUsersNeedingAutoTopUp and the start of one processAutoTopUp per     *)
(* user found; with none found the sweep returns at once.                  *)
SweepStart ==
  LET sel == {a \in SweepAccounts : NeedsAutoTopUp(a)} IN
  /\ sweep.phase \in {"idle", "done"}
  /\ \A a \in sel : Free(a)
  /\ sweep' = [phase |-> IF sel = {} THEN "done" ELSE "running",
               selected |-> sel, results |-> [a \in {} |-> "none"],
               processed |-> 0, successful |-> 0, failed |-> 0]
  /\ proc' = [a \in SweepAccounts |->
       IF a \in sel
         THEN [IdleProc EXCEPT !.pc = "at_load", !.op = "autotopup",
                               !.user = a, !.ref = <<"auto", a>>]
         ELSE proc[a]]
  /\ UNCHANGED <<credits, stats, autoTopUp, ledger, requests, intents, calls,
                 writes, applied, charged, calc>>

(* Promise.all in place of Promise.allSettled: the sweep returns as soon   *)
(* as one account has failed.                                              *)
SweepSettleOnFirstFailure ==
  LET over == {a \in sweep.selected : proc[a].pc = "done"}
      good == {a \in over : proc[a].outcome = "ok"}
  IN
  /\ sweep.phase = "running"
  /\ over = sweep.selected \/ over # good
  /\ sweep' = [sweep EXCEPT !.phase = "done",
                            !.results = [a \in over |-> proc[a].outcome],
                            !.processed = Cardinality(over),
                            !.successful = Cardinality(good),
                            !.failed = Cardinality(over) - Cardinality(good)]
  /\ UNCHANGED <<credits, stats, autoTopUp, ledger, requests, intents, proc,
                 calls, writes, applied, charged, calc>>

(* Promise.allSettled has settled: the results are counted. *)
SweepSettle ==
  LET good == {a \in sweep.selected : proc[a].outcome = "ok"} IN
  /\ sweep.phase = "running"
  /\ \A a \in sweep.selected : proc[a].pc = "done"
  /\ sweep' = [sweep EXCEPT !.phase = "done",
                            !.results = [a \in sweep.selected |->
                                           proc[a].outcome],
                            !.processed = Cardinality(sweep.selected),
                            !.successful = Cardinality(good),
                            !.failed = Cardinality(sweep.selected)
                                         - Cardinality(good)]
  /\ UNCHANGED <<credits, stats, autoTopUp, ledger, requests, intents, proc,
                 calls, writes, applied, charged, calc>>

(* POST /auto-topup: User.findById and the check that a top-up is due. *)
RouteTopUpStart(a) ==
  /\ Free(a)
  /\ sweep.phase = "running" => a \notin sweep.selected
  /\ proc' = [proc EXCEPT ![a] =
       LET base == [IdleProc EXCEPT !.op = "route_topup", !.user = a,
                                    !.ref = <<"route", a>>,
                                    !.ver = writes[a],
                                    !.dcredits = credits[a],
                                    !.dstats = stats[a]]
       IN IF ~autoTopUp[a].enabled \/ credits[a] > autoTopUp[a].threshold
            THEN [base EXCEPT !.pc = "done", !.outcome = "not_needed"]
            ELSE [base EXCEPT !.pc = "rt_charge",
                    !.amount = PackageCredits(autoTopUp[a].packageType)]]
  /\ UNCHANGED <<credits, stats, autoTopUp, ledger, requests, intents, calls,
                 writes, applied, charged, calc, sweep>>

(* POST /auto-topup: the off-session charge returns. *)
RouteTopUpCharge(a) ==
  LET me == proc[a]
      pkg == autoTopUp[a].packageType
  IN
  /\ me.pc = "rt_charge"
  /\ \/ /\ proc' = [proc EXCEPT ![a] =
             [me EXCEPT !.pc = "rt_saveUser",
                        !.dcredits = me.dcredits + me.amount,
                        !.dstats = [me.dstats EXCEPT
                           !.totalCreditsPurchased = @ + me.amount]]]
        /\ intents' = [intents EXCEPT ![me.ref] = AutoIntent(a, pkg, "succeeded")]
        /\ UNCHANGED autoTopUp
     \/ /\ proc' = [proc EXCEPT ![a] = Finish(a, "payment_failed")]
        /\ intents' = [intents EXCEPT ![me.ref] = AutoIntent(a, pkg, "failed")]
        /\ UNCHANGED autoTopUp
     \/ /\ autoTopUp' = [autoTopUp EXCEPT ![a].enabled = FALSE]
        /\ intents' = [intents EXCEPT ![me.ref] = AutoIntent(a, pkg, "failed")]
        /\ proc' = [proc EXCEPT ![a] = Finish(a, "authentication_required")]
  /\ UNCHANGED <<credits, stats, ledger, requests, calls, writes, applied,
                 charged, calc, sweep>>

(* POST /auto-topup: user.save() *)
RouteTopUpSaveUser(a) ==
  LET me == proc[a] IN
  /\ me.pc = "rt_saveUser"
  /\ credits' = [credits EXCEPT ![a] = me.dcredits]
  /\ stats' = [stats EXCEPT
       ![a].totalCreditsPurchased = me.dstats.totalCreditsPurchased]
  /\ writes' = [writes EXCEPT ![a] = @ + 1]
  /\ proc' = [proc EXCEPT ![a].pc = "rt_saveTx"]
  /\ UNCHANGED <<autoTopUp, ledger, requests, intents, calls, applied,
                 charged, calc, sweep>>

(* POST /auto-topup: creditTransaction.save() *)
RouteTopUpSaveTx(a) ==
  LET me == proc[a] IN
  /\ me.pc = "rt_saveTx"
  /\ ledger' = Append(ledger,
       LedgerEntry(a, "purchase", me.amount, me.ref, NoLead, 0))
  /\ proc' = [proc EXCEPT ![a] = Finish(a, "ok")]
  /\ UNCHANGED <<credits, stats, autoTopUp, requests, intents, calls,
                 writes, applied, charged, calc, sweep>>

NextSweep ==
  \/ SweepStart
  \/ \E a \in SweepAccounts : AutoTopUpLoad(a)
  \/ \E a \in SweepAccounts : AutoTopUpCharge(a)
  \/ \E a \in SweepAccounts : AutoTopUpSave(a)
  \/ SweepSettle
  \/ \E a \in SweepAccounts : RouteTopUpStart(a)
  \/ \E a \in SweepAccounts : RouteTopUpCharge(a)
  \/ \E a \in SweepAccounts : RouteTopUpSaveUser(a)
  \/ \E a \in SweepAccounts : RouteTopUpSaveTx(a)

(* Sweeps one after the other, with the providers' own top-ups between. *)
SpecSweep == InitSweep /\ [][NextSweep]_vars

(* The event loop runs every handler that is ready. *)
SpecSweepFair == SpecSweep /\ WF_vars(NextSweep)

----------------------------------------------------------------------------
(* C23: a ledger entry with status completed keeps that status on every    *)
(* step, whatever events are delivered for its payment reference.          *)
C23_CompletedEntryStaysCompleted ==
  [][\A n \in 1..Len(ledger) :
       ledger[n].status = "completed" => ledger'[n].status = "completed"]_vars

----------------------------------------------------------------------------
(* creditTransactionSchema.methods.processTransaction, called on a loaded  *)
(* ledger entry (models/CreditTransaction.js).                             *)

TxBalances == {0, 4, 5, 10}      \* balances stored when processing starts
TxAmounts == {0 - 8, 0 - 5, 0 - 3, 5}  \* signed amounts of pending entries

(* A ledger entry as created with the schema's default status. *)
PendingEntry(p, amount) ==
  [user |-> p, type |-> IF amount < 0 THEN "spend" ELSE "purchase",
   amount |-> amount, ref |-> NoRef, lead |-> NoLead, status |-> "pending",
   balanceAfter |-> 0]

InitTx ==
  /\ credits \in [Providers -> TxBalances]
  /\ stats = [p \in Providers |-> ZeroStats]
  /\ autoTopUp = [p \in Providers |-> NoAutoTopUp]
  /\ ledger \in {<<PendingEntry(p, a), PendingEntry(p, b)>> :
                   p \in Providers, a \in TxAmounts, b \in TxAmounts}
  /\ requests = [l \in Leads |-> NewRequest]
  /\ intents = [k \in AllIntentIds |-> NoIntent]
  /\ proc = [i \in Procs |-> IdleProc]
  /\ calls = 0
  /\ writes = [p \in Providers |-> 0]
  /\ applied = [k \in IntentIds |-> 0]
  /\ charged = [p \in Providers |-> [l \in Leads |-> 0]]
  /\ calc = NoCalc
  /\ sweep = NoSweep

(* The caller's CreditTransaction.findById and the status check. *)
ProcessStart(i, n) ==
  /\ Takes(i)
  /\ Quiet
  /\ calls < MaxCalls
  /\ n \in 1..Len(ledger)
  /\ calls' = calls + 1
  /\ proc' = [proc EXCEPT ![i] =
       LET base == [IdleProc EXCEPT !.op = "process", !.entry = n,
                                    !.user = ledger[n].user,
                                    !.amount = ledger[n].amount]
       IN IF ledger[n].status # "pending"
            THEN [base EXCEPT !.pc = "done", !.outcome = "already_processed"]
            ELSE [base EXCEPT !.pc = "pt_findUser"]]
  /\ UNCHANGED <<credits, stats, autoTopUp, ledger, requests, intents,
                 writes, applied, charged, calc, sweep>>

(* User.findById and the new balance, Math.max(0, previous + amount). *)
ProcessFindUser(i) ==
  LET me == proc[i] IN
  /\ me.pc = "pt_findUser"
  /\ proc' = [proc EXCEPT ![i] =
       [me EXCEPT !.pc = "pt_saveUser", !.ver = writes[me.user],
                  !.dcredits = Max(0, credits[me.user] + me.amount)]]
  /\ UNCHANGED <<credits, stats, autoTopUp, ledger, requests, intents, calls,
                 writes, applied, charged, calc, sweep>>

(* user.save() *)
ProcessSaveUser(i) ==
  LET me == proc[i] IN
  /\ me.pc = "pt_saveUser"
  /\ credits' = [credits EXCEPT ![me.user] = me.dcredits]
  /\ writes' = [writes EXCEPT ![me.user] = @ + 1]
  /\ proc' = [proc EXCEPT ![i].pc = "pt_saveTx"]
  /\ UNCHANGED <<stats, autoTopUp, ledger, requests, intents, calls,
                 applied, charged, calc, sweep>>

(* this.save(): the entry completed, with its balanceAfter. *)
ProcessSaveTx(i) ==
  LET me == proc[i] IN
  /\ me.pc = "pt_saveTx"
  /\ ledger' = [ledger EXCEPT ![me.entry].status = "completed",
                              ![me.entry].balanceAfter = me.dcredits]
  /\ proc' = [proc EXCEPT ![i] = Finish(i, "ok")]
  /\ UNCHANGED <<credits, stats, autoTopUp, requests, intents, calls,
                 writes, applied, charged, calc, sweep>>

NextTx ==
  \/ \E i \in Procs, n \in 1..2 : ProcessStart(i, n)
  \/ \E i \in Procs : ProcessFindUser(i)
  \/ \E i \in Procs : ProcessSaveUser(i)
  \/ \E i \in Procs : ProcessSaveTx(i)

(* Pending entries processed one after the other. *)
SpecTx == InitTx /\ [][NextTx]_vars

(* C24: when processTransaction has loaded the account and the entry's     *)
(* signed amount would take the stored balance below zero, it ends there   *)
(* without success and neither the balance nor the ledger changes.         *)
C24_OverdrawingEntryRejected ==
  [][\A i \in Procs :
       (/\ proc[i].pc = "pt_findUser"
        /\ Moves(i)
        /\ credits[proc[i].user] + proc[i].amount < 0)
         => (/\ proc'[i].pc = "done"
             /\ proc'[i].outcome # "ok"
             /\ UNCHANGED <<credits, ledger>>)]_vars

----------------------------------------------------------------------------
(* C25: when a credit or debit that writes a ledger entry (confirm-payment,*)
(* auto top-up, spendCredits) has answered success, with no other handler  *)
(* in between, the completed entry it wrote last carries as balanceAfter   *)
(* the balance now stored for the account.                                 *)
C25_BalanceAfterIsStoredBalance ==
  [][\A i \in Procs :
       (/\ Moves(i)
        /\ proc'[i].pc = "done"
        /\ proc'[i].outcome = "ok"
        /\ proc'[i].op \in {"confirm", "autotopup", "spend"})
         => LET last == ledger'[Len(ledger')] IN
            /\ last.user = proc'[i].user
            /\ last.status = "completed"
                 => last.balanceAfter = credits'[proc'[i].user]]_vars

----------------------------------------------------------------------------
(* C26: on every step that raises an account's stored balance, the payment *)
(* processor holds a succeeded payment intent of that account.             *)
C26_CreditOnlyAfterPayment ==
  [][\A p \in Providers :
       credits'[p] > credits[p]
         => \E k \in AllIntentIds :
              /\ intents[k].status = "succeeded"
              /\ intents[k].customer = p]_vars

----------------------------------------------------------------------------
----------------------------------------------------------------------------
(* C28: when a contact decides to debit (the contact route with            *)
(* useCredits, or the auto contact after a payment), the credits it takes  *)
(* equal the cost the check route quotes for the same stored request.      *)
C28_DebitEqualsQuotedCost ==
  [][\A i \in Procs :
       /\ (/\ proc[i].pc = "c_findRequest"
           /\ proc'[i].pc = "c_saveRequest"
           /\ proc'[i].amount > 0)
            => proc'[i].amount = CheckLeadCost(proc[i].lead)
       /\ (/\ proc[i].pc = "cp_findRequest"
           /\ proc'[i].pc = "cp_saveRequest")
            => proc'[i].cost = CheckLeadCost(proc[i].lead)]_vars

----------------------------------------------------------------------------
(* C29: every answer that carried a customer's email and phone to a        *)
(* provider is about a request on which that provider is among the         *)
(* contacted providers.                                                    *)
C29_ContactDetailsOnlyAfterContact ==
  \A i \in Procs :
    \A l \in proc[i].disclosed :
      Includes(requests[l].contactedProviders, proc[i].user)

----------------------------------------------------------------------------
(* C30: no request's quotes list holds two entries of the same provider.   *)
C30_OneQuotePerProvider ==
  \A l \in Leads :
    \A p \in Providers : Count(requests[l].quotes, p) <= 1

====
